---- MODULE Spec2Model ----
(***************************************************************************)
(* Model of Ska/File.py: the scoped directory change (chdir), the glob     *)
(* count validator (get_globfiles), the relative path calculator           *)
(* (relpath), the local copy/link maker (make_local_copy) and the dated    *)
(* file scanner with its cache (prune_dirs, get_mp_files).                 *)
(*                                                                         *)
(* The functions share no state, so each has its own specification over    *)
(* its own group of variables; the other groups are parked.                *)
(***************************************************************************)
EXTENDS Integers, Sequences, FiniteSets, TLC

VARIABLES
    \* chdir
    cwd,          \* the process working directory
    ctx,          \* stack of active chdir() contexts, innermost first
    exc,          \* TRUE while an exception propagates
    lastExit,     \* <<>> or <<record of the context exit that just happened>>
    \* get_globfiles
    globfs,       \* the file names present
    globret,      \* <<>> or <<record of the call that just returned or raised>>
    \* relpath
    rp_path, rp_cwd, rp_ret,
    \* make_local_copy
    fs,           \* the file system: what each file path holds
    wd,           \* the process working directory
    mlc,          \* <<>> or <<record of the call that just returned or raised>>
    \* get_mp_files
    mpdirs,       \* the directories under mproot, each a tuple of segments
    get_mp_files_cache,   \* the module-level cache: key string -> stored list
    mp_pc,        \* "idle", or "walk" inside the os.walk loop of a call
    mp_args,      \* the arguments of the call in progress (<<>> when idle)
    todo,         \* os.walk: the directories still to visit, next first
    subdirs,      \* the local list `subdirs` (None before it is set)
    last_subdir,  \* the local `last_subdir`
    mpfiles,      \* the local list `mpfiles`
    mp_ret,       \* <<>> or <<record of the call that just returned>>
    mp_first,     \* per argument tuple, the list object its first completed call returned
    mp_users,     \* per cache key, the argument tuples that stored or were served its entry
    mp_n          \* calls made so far (also names the list objects)

chdirVars == <<cwd, ctx, exc, lastExit>>
globVars == <<globfs, globret>>
relpathVars == <<rp_path, rp_cwd, rp_ret>>
copyVars == <<fs, wd, mlc>>
mpVars == <<mpdirs, get_mp_files_cache, mp_pc, mp_args, todo, subdirs, last_subdir, mpfiles,
            mp_ret, mp_first, mp_users, mp_n>>
vars == <<chdirVars, globVars, relpathVars, copyVars, mpVars>>

\* Python's None
None == "None"

Min(a, b) == IF a < b THEN a ELSE b

----------------------------------------------------------------------------
(* Parked values of each group, for the specifications that do not use it. *)
chdirParked == cwd = "/" /\ ctx = <<>> /\ exc = FALSE /\ lastExit = <<>>
globParked == globfs = {} /\ globret = <<>>
relpathParked == rp_path = <<>> /\ rp_cwd = <<>> /\ rp_ret = <<>>
copyParked == fs = <<>> /\ wd = <<>> /\ mlc = <<>>
mpParked ==
    /\ mpdirs = {} /\ get_mp_files_cache = <<>> /\ mp_pc = "idle" /\ mp_args = <<>> /\ todo = <<>>
    /\ subdirs = <<>> /\ last_subdir = None /\ mpfiles = <<>> /\ mp_ret = <<>>
    /\ mp_first = <<>> /\ mp_users = <<>> /\ mp_n = 0

----------------------------------------------------------------------------
(* chdir: File.py lines 10-28                                              *)

\* deepest nesting of with-blocks explored
MaxNest == 2

\* the directories that exist
Dirs == {"/", "/a", "/a/b"}
\* what a caller may pass as dirname: None, a directory, or a path that is not one
DirArgs == Dirs \cup {None, "/nodir"}

\* os.getcwd()
getcwd == cwd

\* the finally clause of a context that saved curdir, left by way of `how`
\* ("normal", "raise", "enterfail") while the process is in `now`
chdir_finally_nofinally(curdir, now, how) == IF how = "normal" THEN curdir ELSE now
chdir_finally(curdir, now, how) == curdir

chdirExit(frame, how) ==
    /\ cwd' = chdir_finally(frame.curdir, cwd, how)
    /\ lastExit' = <<[entered |-> frame.entered, how |-> how, before |-> cwd,
                      after |-> chdir_finally(frame.curdir, cwd, how)]>>

\* with chdir(dirname): up to the yield
chdir(dirname) ==
    /\ ~exc
    /\ Len(ctx) < MaxNest
    /\ LET frame == [curdir |-> getcwd, entered |-> cwd, dirname |-> dirname]
       IN  IF dirname = None
           THEN /\ ctx' = <<frame>> \o ctx
                /\ UNCHANGED <<cwd, exc>>
                /\ lastExit' = <<>>
           ELSE IF dirname \in Dirs
           THEN /\ cwd' = dirname
                /\ ctx' = <<frame>> \o ctx
                /\ UNCHANGED exc
                /\ lastExit' = <<>>
           ELSE \* os.chdir(dirname) raises: the finally clause runs, the error goes on
                /\ chdirExit(frame, "enterfail")
                /\ exc' = TRUE
                /\ UNCHANGED ctx
    /\ UNCHANGED <<globVars, relpathVars, copyVars, mpVars>>

\* the enclosed block (or code between blocks) changes directory itself
block_chdir(d) ==
    /\ ~exc
    /\ cwd' = d
    /\ lastExit' = <<>>
    /\ UNCHANGED <<ctx, exc, globVars, relpathVars, copyVars, mpVars>>

\* the enclosed block raises
block_raise ==
    /\ ~exc
    /\ ctx # <<>>
    /\ exc' = TRUE
    /\ lastExit' = <<>>
    /\ UNCHANGED <<cwd, ctx, globVars, relpathVars, copyVars, mpVars>>

\* the enclosed block ends: the generator resumes after the yield
chdir_exit_normal ==
    /\ ~exc
    /\ ctx # <<>>
    /\ chdirExit(Head(ctx), "normal")
    /\ ctx' = Tail(ctx)
    /\ UNCHANGED <<exc, globVars, relpathVars, copyVars, mpVars>>

\* the exception leaves the innermost with-block
chdir_exit_raise ==
    /\ exc
    /\ ctx # <<>>
    /\ chdirExit(Head(ctx), "raise")
    /\ ctx' = Tail(ctx)
    /\ UNCHANGED <<exc, globVars, relpathVars, copyVars, mpVars>>

\* the exception is handled by the code around (or the caller at top level)
block_except ==
    /\ exc
    /\ exc' = FALSE
    /\ lastExit' = <<>>
    /\ UNCHANGED <<cwd, ctx, globVars, relpathVars, copyVars, mpVars>>

InitChdir ==
    /\ cwd \in Dirs
    /\ ctx = <<>>
    /\ exc = FALSE
    /\ lastExit = <<>>
    /\ globParked /\ relpathParked /\ copyParked /\ mpParked

NextChdir ==
    \/ \E dirname \in DirArgs : chdir(dirname)
    \/ \E d \in Dirs : block_chdir(d)
    \/ block_raise
    \/ chdir_exit_normal
    \/ chdir_exit_raise
    \/ block_except

SpecChdir == InitChdir /\ [][NextChdir]_vars

\* C1: after a chdir() context exits, by normal return of the block, by an
\* exception out of the block, or because the change into dirname failed, the
\* working directory is the one the process was in when the context was entered.
C1_RestoresCwd ==
    lastExit # <<>> => /\ lastExit[1].after = lastExit[1].entered
                       /\ cwd = lastExit[1].entered

\* an inner context entered in /a, whose block moved to / and then raised, has
\* just been left, inside an outer context entered in /a/b
C1_Witness ==
    /\ lastExit # <<>>
    /\ lastExit[1].how = "raise"
    /\ lastExit[1].entered = "/a"
    /\ lastExit[1].before = "/"
    /\ Len(ctx) = 1
    /\ ctx[1].entered = "/a/b"

----------------------------------------------------------------------------
(* get_globfiles: File.py lines 50-67                                      *)

\* largest count bound a caller passes
MaxCount == 3

\* the file names that may be present, and the glob patterns tried on them
GlobNames == {"a1", "a2", "b1", "b2"}
GlobPatterns == {"a*", "b*", "*", "a1", "c*"}

\* fnmatch of one name against one pattern
fnmatch(name, pat) ==
    CASE pat = "*"  -> TRUE
      [] pat = "a*" -> name \in {"a1", "a2"}
      [] pat = "b*" -> name \in {"b1", "b2"}
      [] pat = "a1" -> name = "a1"
      [] OTHER      -> FALSE

\* glob.glob(fileglob): the matching paths (their order is the file system's)
glob(fileglob) == {f \in globfs : fnmatch(f, fileglob)}

\* minfiles / maxfiles: None, written <<>>, or a count k, written <<k>>
NoCount == <<>>
CountArgs == {NoCount} \cup {<<k>> : k \in 0 .. MaxCount}

\* the two tests of lines 62 and 64
too_few_le(nfiles, minfiles) == minfiles # NoCount /\ nfiles <= minfiles[1]
too_few(nfiles, minfiles) == minfiles # NoCount /\ nfiles < minfiles[1]
too_many(nfiles, maxfiles) == maxfiles # NoCount /\ nfiles > maxfiles[1]

get_globfiles(fileglob, minfiles, maxfiles) ==
    /\ LET files == glob(fileglob)
           nfiles == Cardinality(files)
           call == [fileglob |-> fileglob, minfiles |-> minfiles, maxfiles |-> maxfiles]
       IN  IF too_few(nfiles, minfiles)
           THEN globret' = <<[call |-> call, raised |-> TRUE, files |-> {}]>>
           ELSE IF too_many(nfiles, maxfiles)
           THEN globret' = <<[call |-> call, raised |-> TRUE, files |-> {}]>>
           ELSE globret' = <<[call |-> call, raised |-> FALSE, files |-> files]>>
    /\ UNCHANGED <<globfs, chdirVars, relpathVars, copyVars, mpVars>>

InitGlob ==
    /\ globfs \in SUBSET GlobNames
    /\ globret = <<>>
    /\ chdirParked /\ relpathParked /\ copyParked /\ mpParked

NextGlob ==
    \E fileglob \in GlobPatterns, minfiles \in CountArgs, maxfiles \in CountArgs :
        get_globfiles(fileglob, minfiles, maxfiles)

SpecGlob == InitGlob /\ [][NextGlob]_vars

\* the paths of the file system that the pattern matches, written out per pattern
MatchingPaths(pat) ==
    IF pat = "*" THEN globfs
    ELSE IF pat = "a*" THEN globfs \cap {"a1", "a2"}
    ELSE IF pat = "b*" THEN globfs \cap {"b1", "b2"}
    ELSE IF pat = "a1" THEN globfs \cap {"a1"}
    ELSE {}

\* C6: get_globfiles raises exactly when minfiles is given and fewer paths match,
\* or maxfiles is given and more paths match; otherwise it returns exactly the
\* matching paths.
C6_GlobBounds ==
    globret # <<>> =>
        LET r == globret[1]
            n == Cardinality(MatchingPaths(r.call.fileglob))
            lo == r.call.minfiles
            hi == r.call.maxfiles
            out == (lo # NoCount /\ n < lo[1]) \/ (hi # NoCount /\ n > hi[1])
        IN  /\ r.raised <=> out
            /\ ~r.raised => r.files = MatchingPaths(r.call.fileglob)

\* a call whose count sits on the lower bound, with no upper bound, returned
\* both matches
C6_Witness ==
    /\ globret # <<>>
    /\ ~globret[1].raised
    /\ globret[1].call.minfiles = <<2>>
    /\ globret[1].call.maxfiles = NoCount
    /\ Cardinality(globret[1].files) = 2

----------------------------------------------------------------------------
(* Paths.  A path is [abs, segs]: whether it starts with os.sep, and its   *)
(* segments between separators; '' is [abs |-> FALSE, segs |-> <<>>].      *)

Path(abs, segs) == [abs |-> abs, segs |-> segs]
pardir == ".."

RECURSIVE normsegs(_, _, _)
\* os.path.normpath on the segments: '.' and empty segments go, '..' takes the
\* segment before it, at the root it is dropped, and in a relative path it stays
normsegs(abs, segs, acc) ==
    IF segs = <<>> THEN acc
    ELSE LET h == Head(segs)
         IN  IF h = "." \/ h = ""
             THEN normsegs(abs, Tail(segs), acc)
             ELSE IF h = pardir
             THEN IF acc # <<>> /\ acc[Len(acc)] # pardir
                  THEN normsegs(abs, Tail(segs), SubSeq(acc, 1, Len(acc) - 1))
                  ELSE IF abs
                  THEN normsegs(abs, Tail(segs), acc)
                  ELSE normsegs(abs, Tail(segs), Append(acc, h))
             ELSE normsegs(abs, Tail(segs), Append(acc, h))

normpath(p) == Path(p.abs, normsegs(p.abs, p.segs, <<>>))

\* os.path.join(a, b): an absolute b replaces a
join(a, b) == IF b.abs THEN b ELSE Path(a.abs, a.segs \o b.segs)

\* os.path.abspath(p) in a process whose working directory is `here`
abspath(p, here) == normpath(join(here, p))

\* str.split(os.sep) of a normalised absolute path: '/' gives ['', '']
split(p) == IF p.segs = <<>> THEN <<"", "">> ELSE <<"">> \o p.segs

RECURSIVE strip_common(_, _)
\* the loop of lines 103-105: <<currpaths, destpaths>> without their common head
strip_common(currpaths, destpaths) ==
    IF currpaths # <<>> /\ destpaths # <<>> /\ Head(currpaths) = Head(destpaths)
    THEN strip_common(Tail(currpaths), Tail(destpaths))
    ELSE <<currpaths, destpaths>>

\* [os.pardir] * n
pardirs(n) == [i \in 1 .. n |-> pardir]

\* the test of line 99
same_top_always(currpaths, destpaths) == TRUE
same_top(currpaths, destpaths) == currpaths[2] = destpaths[2]

\* line 109
relpaths_of(currpaths, destpaths) == pardirs(Len(currpaths)) \o destpaths

\* relpath(path, cwd) called in a process whose working directory is `here`;
\* cwd is <<>> for None (the default) or <<a path>>
relpath(path, cwdarg, here) ==
    LET cwd_ == IF cwdarg = <<>> THEN here ELSE cwdarg[1]
        currpath == abspath(cwd_, here)
        destpath == abspath(join(cwd_, path), here)
        currpaths == split(currpath)
        destpaths == split(destpath)
        rest == strip_common(currpaths, destpaths)
    IN  IF ~same_top(currpaths, destpaths)
        THEN destpath
        ELSE Path(FALSE, relpaths_of(rest[1], rest[2]))

----------------------------------------------------------------------------
(* relpath on absolute arguments: File.py lines 69-110                     *)

\* longest path argument, in segments
MaxDepth == 3

RpSegs == {"a", "b", "x", pardir}

RECURSIVE SeqsUpTo(_, _)
SeqsUpTo(S, n) ==
    IF n = 0 THEN {<<>>}
    ELSE LET shorter == SeqsUpTo(S, n - 1)
         IN  shorter \cup {Append(q, e) : q \in shorter, e \in S}

RpArgs == {Path(TRUE, q) : q \in SeqsUpTo(RpSegs, MaxDepth)}

relpath_call ==
    /\ rp_ret = <<>>
    /\ rp_ret' = <<relpath(rp_path, <<rp_cwd>>, Path(TRUE, <<>>))>>
    /\ UNCHANGED <<rp_path, rp_cwd, chdirVars, globVars, copyVars, mpVars>>

InitRelpath ==
    /\ rp_path \in RpArgs
    /\ rp_cwd \in RpArgs
    /\ rp_ret = <<>>
    /\ chdirParked /\ globParked /\ copyParked /\ mpParked

NextRelpath == relpath_call

SpecRelpath == InitRelpath /\ [][NextRelpath]_vars

\* the segments of an absolute path with '.' and '..' resolved, by the rule
\* that each '..' cancels the nearest named segment before it
RECURSIVE Resolved(_)
Resolved(q) ==
    IF q = <<>> THEN <<>>
    ELSE LET r == Resolved(SubSeq(q, 1, Len(q) - 1))
             l == q[Len(q)]
         IN  IF l = pardir
             THEN (IF r = <<>> THEN r ELSE SubSeq(r, 1, Len(r) - 1))
             ELSE Append(r, l)

\* length of the longest common prefix of two sequences
RECURSIVE CommonLen(_, _)
CommonLen(p, q) ==
    IF p # <<>> /\ q # <<>> /\ p[1] = q[1] THEN 1 + CommonLen(Tail(p), Tail(q)) ELSE 0

\* C5: for an absolute destination and an absolute base, relpath returns the
\* absolute destination when their first segments differ, and otherwise one
\* '..' per base segment below the common prefix followed by the rest of the
\* destination ('' when they are equal); joining the base with the result and
\* normalising yields the destination.
C5_Relpath ==
    rp_ret # <<>> =>
        LET dest == Resolved(rp_path.segs)
            base == Resolved(rp_cwd.segs)
            k == CommonLen(base, dest)
            out == rp_ret[1]
        IN  /\ SubSeq(dest, 1, Min(1, Len(dest))) # SubSeq(base, 1, Min(1, Len(base)))
                 => out = Path(TRUE, dest)
            /\ SubSeq(dest, 1, Min(1, Len(dest))) = SubSeq(base, 1, Min(1, Len(base)))
                 => /\ ~out.abs
                    /\ Len(out.segs) = (Len(base) - k) + (Len(dest) - k)
                    /\ \A i \in 1 .. Len(base) - k : out.segs[i] = pardir
                    /\ \A i \in 1 .. Len(dest) - k :
                           out.segs[Len(base) - k + i] = dest[k + i]
            /\ dest = base => out = Path(FALSE, <<>>)
            /\ normpath(join(Path(TRUE, base), out)) = Path(TRUE, dest)

\* the docstring's first example in shape: up out of two base segments, then
\* down one
C5_Witness ==
    /\ rp_ret # <<>>
    /\ rp_cwd = Path(TRUE, <<"a", "b", "x">>)
    /\ rp_path = Path(TRUE, <<"a", "a">>)
    /\ rp_ret[1] = Path(FALSE, <<pardir, pardir, "a">>)

----------------------------------------------------------------------------
(* make_local_copy: File.py lines 112-165                                  *)

\* the directories (all real, none a symbolic link) and the file names in them
CopyDirs == {<<"a">>, <<"a", "c">>, <<"b">>}
CopyNames == {"f", "f.gz"}
FilePaths == {d \o <<n>> : d \in CopyDirs, n \in CopyNames}

\* what a file path holds: nothing, a regular file or a symbolic link
NoNode == [kind |-> "none", data |-> "", target |-> Path(FALSE, <<>>)]
FileNode(data) == [kind |-> "file", data |-> data, target |-> Path(FALSE, <<>>)]
LinkNode(target) == [kind |-> "link", data |-> "", target |-> target]

\* str.endswith('.gz') and re.sub(r'\.gz$', '', name) on the names in use
endswith_gz(name) == name = "f.gz"
sub_gz(name) == IF name = "f.gz" THEN "f" ELSE name

\* gunzip --stdout on a file's bytes: <<the plain bytes>>, or <<>> when the
\* bytes are not gzip data (gunzip fails and writes nothing)
gunzip(data) ==
    CASE data = "gz(d1)" -> <<"d1">>
      [] data = "gz(d2)" -> <<"d2">>
      [] OTHER -> <<>>

basename(p) == IF p.segs = <<>> THEN "" ELSE p.segs[Len(p.segs)]
dirname(p) == Path(p.abs, IF p.segs = <<>> THEN <<>> ELSE SubSeq(p.segs, 1, Len(p.segs) - 1))

\* the node at an absolute location of file system f
node_at(f, segs) == IF segs \in FilePaths THEN f[segs] ELSE NoNode

\* where a symbolic link at location segs leads
link_dest(f, segs) ==
    normpath(join(Path(TRUE, SubSeq(segs, 1, Len(segs) - 1)), f[segs].target)).segs

RECURSIVE chain_end(_, _, _)
\* follow symbolic links from segs: [ok, at], ok = FALSE for a loop (ELOOP)
chain_end(f, segs, fuel) ==
    IF node_at(f, segs).kind # "link" THEN [ok |-> TRUE, at |-> segs]
    ELSE IF fuel = 0 THEN [ok |-> FALSE, at |-> segs]
    ELSE chain_end(f, link_dest(f, segs), fuel - 1)

follow(f, segs) == chain_end(f, segs, Cardinality(FilePaths))

\* os.path.exists: follows links; a directory exists too
exists(f, segs) ==
    LET e == follow(f, segs)
    IN  e.ok /\ (node_at(f, e.at).kind = "file" \/ e.at \in CopyDirs)

\* os.path.lexists
lexists(f, segs) == node_at(f, segs).kind # "none" \/ segs \in CopyDirs

\* the bytes read through a path: <<bytes>>, or <<>> when it cannot be opened
read(f, segs) ==
    LET e == follow(f, segs)
    IN  IF e.ok /\ node_at(f, e.at).kind = "file" THEN <<node_at(f, e.at).data>> ELSE <<>>

\* os.unlink(path): removes the name itself, never what a link points to
unlink(f, segs) == [f EXCEPT ![segs] = NoNode]

\* the result of the call: what was asked, what the file system was, how it ended
MlcRet(in_abs, out_abs, copy, linkabs, clobber, pre, raised) ==
    [in_abs |-> in_abs, out_abs |-> out_abs, copy |-> copy, linkabs |-> linkabs,
     clobber |-> clobber, pre |-> pre, raised |-> raised]

\* lines 145-149: the output exists; the file system to go on with, or <<>> to raise
clobber_step(f, out_abs, clobber) ==
    IF exists(f, out_abs)
    THEN (IF clobber THEN <<unlink(f, out_abs)>> ELSE <<>>)
    ELSE <<f>>

\* lines 151-153: gunzip --stdout infile > outfile; <<>> when open(outfile, 'w') raises
gunzip_step(f, in_abs, out_abs) ==
    LET e == follow(f, out_abs)
    IN  IF ~e.ok \/ e.at \notin FilePaths THEN <<>>
        ELSE LET opened == [f EXCEPT ![e.at] = FileNode("")]   \* created or truncated
                 bytes == read(opened, in_abs)
                 plain == IF bytes = <<>> THEN <<>> ELSE gunzip(bytes[1])
             IN  <<[opened EXCEPT ![e.at] = FileNode(IF plain = <<>> THEN "" ELSE plain[1])]>>

\* lines 154-156: cp -p infile outfile; its exit status is not looked at.  cp (GNU)
\* refuses a missing source and does not write through a dangling link
cp_step(f, in_abs, out_abs) ==
    LET bytes == read(f, in_abs)
    IN  IF bytes = <<>> \/ node_at(f, out_abs).kind # "none"
        THEN <<f>>
        ELSE <<[f EXCEPT ![out_abs] = FileNode(bytes[1])]>>

\* lines 157-163: os.symlink(infile_link, outfile); <<>> when it raises
symlink_step(f, in_abs, out, out_abs, linkabs) ==
    LET infile_abs == Path(TRUE, in_abs)
        infile_link == IF linkabs THEN infile_abs
                       ELSE relpath(infile_abs, <<dirname(out)>>, Path(TRUE, wd))
    IN  IF lexists(f, out_abs) THEN <<>>
        ELSE <<[f EXCEPT ![out_abs] = LinkNode(infile_link)]>>

\* outfile is <<>> for None (the default) or <<a path>>
make_local_copy(infile, outfile, copy, linkabs, clobber) ==
    LET here == Path(TRUE, wd)
        in_abs == abspath(infile, here).segs
        out == IF outfile = <<>> THEN Path(FALSE, <<sub_gz(basename(infile))>>)
               ELSE outfile[1]
        out_abs == abspath(out, here).segs
        ret(raised) == <<MlcRet(in_abs, out_abs, copy, linkabs, clobber, fs, raised)>>
    IN  /\ mlc = <<>>
        /\ IF ~exists(fs, in_abs)
           THEN mlc' = ret(TRUE) /\ fs' = fs
           ELSE LET f1 == clobber_step(fs, out_abs, clobber)
                IN  IF f1 = <<>>
                    THEN mlc' = ret(TRUE) /\ fs' = fs
                    ELSE LET f2 == IF endswith_gz(basename(infile))
                                   THEN gunzip_step(f1[1], in_abs, out_abs)
                                   ELSE IF copy
                                   THEN cp_step(f1[1], in_abs, out_abs)
                                   ELSE symlink_step(f1[1], in_abs, out, out_abs, linkabs)
                         IN  IF f2 = <<>>
                             THEN mlc' = ret(TRUE) /\ fs' = f1[1]
                             ELSE mlc' = ret(FALSE) /\ fs' = f2[1]
        /\ UNCHANGED <<wd, chdirVars, globVars, relpathVars, mpVars>>

\* the caller takes the result (or handles the error) and goes on
copy_return ==
    /\ mlc # <<>>
    /\ mlc' = <<>>
    /\ UNCHANGED <<fs, wd, chdirVars, globVars, relpathVars, mpVars>>

\* the caller changes directory between calls
copy_chdir(d) ==
    /\ mlc = <<>>
    /\ d # wd
    /\ wd' = d
    /\ UNCHANGED <<fs, mlc, chdirVars, globVars, relpathVars, mpVars>>

\* the files a run may start with
StartFiles ==
    {[q \in FilePaths |-> IF q \in present
                          THEN FileNode(CASE q = <<"a", "f">> -> "d1"
                                          [] q = <<"a", "f.gz">> -> "gz(d2)"
                                          [] OTHER -> "old")
                          ELSE NoNode] :
        present \in SUBSET {<<"a", "f">>, <<"a", "f.gz">>, <<"b", "f">>}}

InArgs == {Path(TRUE, <<"a", "f">>), Path(TRUE, <<"a", "f.gz">>), Path(FALSE, <<"f">>)}
OutArgs == {<<>>, <<Path(TRUE, <<"b", "f">>)>>, <<Path(TRUE, <<"a", "c", "f">>)>>,
            <<Path(FALSE, <<"f">>)>>}

InitCopy ==
    /\ fs \in StartFiles
    /\ wd \in CopyDirs
    /\ mlc = <<>>
    /\ chdirParked /\ globParked /\ relpathParked /\ mpParked

NextCopy ==
    \/ \E infile \in InArgs, outfile \in OutArgs, copy \in BOOLEAN,
          linkabs \in BOOLEAN, clobber \in BOOLEAN :
            make_local_copy(infile, outfile, copy, linkabs, clobber)
    \/ copy_return
    \/ \E d \in CopyDirs : copy_chdir(d)

SpecCopy == InitCopy /\ [][NextCopy]_vars

\* the input's content before the call, decompressed when its name ends in
\* '.gz': <<bytes>>, or <<>> when there is none
ExpectedContent(r) ==
    LET bytes == read(r.pre, r.in_abs)
    IN  IF bytes # <<>> /\ endswith_gz(r.in_abs[Len(r.in_abs)]) THEN gunzip(bytes[1])
        ELSE bytes

\* C3: when the output path already exists, clobber=False makes the call raise
\* and leaves the file system as it was; clobber=True makes the call succeed and
\* the output path then holds the new copy of (or link to) the input.
C3_Clobber ==
    (mlc # <<>> /\ exists(mlc[1].pre, mlc[1].in_abs) /\ exists(mlc[1].pre, mlc[1].out_abs)) =>
        LET r == mlc[1]
        IN  /\ ~r.clobber => (r.raised /\ fs = r.pre)
            /\ r.clobber => /\ ~r.raised
                            /\ ExpectedContent(r) # <<>>
                            /\ read(fs, r.out_abs) = ExpectedContent(r)

\* C4: for an existing input the output is a decompressed regular file ('.gz'
\* name), a regular copy (copy set), or else a symbolic link whose stored target
\* is relative when linkabs is false and absolute when it is true; and the
\* output always resolves to the input's (decompressed) content.
C4_OutputKind ==
    (mlc # <<>> /\ exists(mlc[1].pre, mlc[1].in_abs) /\ ~mlc[1].raised) =>
        LET r == mlc[1]
            gz == endswith_gz(r.in_abs[Len(r.in_abs)])
            o == node_at(fs, r.out_abs)
        IN  /\ gz => o.kind = "file"
            /\ (~gz /\ r.copy) => o.kind = "file"
            /\ (~gz /\ ~r.copy) => (o.kind = "link" /\ (o.target.abs <=> r.linkabs))
            /\ ExpectedContent(r) # <<>>
            /\ read(fs, r.out_abs) = ExpectedContent(r)

\* C10: whatever the arguments and however the call ends, the input path holds
\* after the call what it held before it.
C10_InputKept ==
    (mlc # <<>> /\ exists(mlc[1].pre, mlc[1].in_abs)) =>
        /\ node_at(fs, mlc[1].in_abs) = node_at(mlc[1].pre, mlc[1].in_abs)
        /\ read(fs, mlc[1].in_abs) = read(mlc[1].pre, mlc[1].in_abs)

----------------------------------------------------------------------------
(* prune_dirs and get_mp_files: File.py lines 168-260                      *)

\* calls of get_mp_files in one run of the process
MaxCalls == 2

\* the characters of the strings that go into the cache key
Chars(str) ==
    CASE str = ""          -> <<>>
      [] str = "/mp"       -> <<"/", "m", "p">>
      [] str = "1996"      -> <<"1", "9", "9", "6">>
      [] str = "2009"      -> <<"2", "0", "0", "9">>
      [] str = "None"      -> <<"N", "o", "n", "e">>
      [] str = "mps"       -> <<"m", "p", "s">>
      [] str = "or"        -> <<"o", "r">>
      [] str = "orbit"     -> <<"o", "r", "b", "i", "t">>
      [] str = "mps/or"    -> <<"m", "p", "s", "/", "o", "r">>
      [] str = "mps/orbit" -> <<"m", "p", "s", "/", "o", "r", "b", "i", "t">>
      [] str = ".*"        -> <<".", "*">>
      [] str = "bit.*"     -> <<"b", "i", "t", ".", "*">>

\* str(subdir): None prints as 'None'
str(subdir) == IF subdir = None THEN Chars("None") ELSE Chars(subdir)

\* subdir.rstrip('/').split('/')
split_subdir(subdir) ==
    CASE subdir = "mps/or"    -> <<"mps", "or">>
      [] subdir = "mps/orbit" -> <<"mps", "orbit">>

\* the compiled patterns of lines 200-202, as re.match decides them on the names in use
year_re == "\\d{4}$"
week_re == "[A-Z]{3}\\d{4}$"
vers_re == "ofls[a-z]$"
YearNames == {"1996", "2009"}
WeekNames == {"DEC3195", "JAN0596", "MAR0109"}
VersNames == {"oflsa", "oflsb"}

\* re.match(regex, x) for a subdirectory name used as the regex: the name has no
\* regex operator in it, so it matches x exactly when x starts with it
IsPrefix(p, q) == Len(p) <= Len(q) /\ SubSeq(q, 1, Len(p)) = p
match_name(regex, x) == IsPrefix(Chars(regex), Chars(x))

\* re.match(regex, x) on a directory name x
re_match(regex, x) ==
    CASE regex = year_re -> x \in YearNames
      [] regex = week_re -> x \in WeekNames
      [] regex = vers_re -> x \in VersNames
      [] OTHER           -> match_name(regex, x)

\* re.match(file_basename_regex, x) on the file names in use
match_file(regex, x) ==
    CASE regex = ".*"    -> TRUE
      [] regex = "bit.*" -> x \in {"bit1", "bit2"}

\* prune_dirs(dirs, regex): the names left in dirs
prune_dirs(dirs, regex) == {x \in dirs : re_match(regex, x)}

\* the directory trees a run may find under mproot: a fixed part and optional parts
BaseTree ==
    {<<>>, <<"tmp">>, <<"1996">>, <<"1996", "JAN0596">>, <<"1996", "JAN0596", "oflsa">>,
     <<"2009">>, <<"2009", "notes">>, <<"2009", "MAR0109">>,
     <<"2009", "MAR0109", "oflsa">>, <<"2009", "MAR0109", "oflsa", "mps">>,
     <<"2009", "MAR0109", "oflsa", "mps", "or">>}
OptionalTrees ==
    {{<<"1996", "DEC3195">>, <<"1996", "DEC3195", "oflsa">>},
     {<<"2009", "MAR0109", "oflsb">>, <<"2009", "MAR0109", "oflsb", "mps">>,
      <<"2009", "MAR0109", "oflsb", "mps", "or">>},
     {<<"2009", "MAR0109", "oflsa", "mps", "orbit">>}}
MpTrees == {BaseTree \cup UNION chosen : chosen \in SUBSET OptionalTrees}

\* the files in directory d
files_in(d) ==
    IF d = <<>> THEN {}
    ELSE LET tail == d[Len(d)]
         IN  CASE tail \in VersNames -> IF d[Len(d) - 1] = "MAR0109" /\ tail = "oflsa"
                                        THEN {"plan", "bit1"} ELSE {"plan"}
               [] tail = "or"        -> {"bit1", "bit2"}
               [] tail = "orbit"     -> {"plan"}
               [] tail = "tmp"       -> {"plan"}
               [] tail = "notes"     -> {"plan"}
               [] OTHER              -> {}

\* the names of the directories in directory d
dirs_in(d) == {q[Len(q)] : q \in {q \in mpdirs : Len(q) = Len(d) + 1 /\ SubSeq(q, 1, Len(d)) = d}}

\* the orders in which a listing may give the names of S
Orders(S) ==
    {q \in [1 .. Cardinality(S) -> S] : \A i, j \in 1 .. Cardinality(S) : q[i] = q[j] => i = j}

MpArgs ==
    [file_basename_regex : {".*", "bit.*"}, subdir : {None, "mps/or", "mps/orbit"},
     mpdir : {"", "2009"}, mproot : {"/mp"}]

\* rootdir = os.path.join(mproot, mpdir), as a string and as a directory of the tree
rootdir_str(a) == Chars(a.mproot) \o <<"/">> \o Chars(a.mpdir)
rootdir(a) == IF a.mpdir = "" THEN <<>> ELSE <<a.mpdir>>

\* the key looked up on line 194 and the key stored under on line 259
lookup_key(a) == rootdir_str(a) \o str(a.subdir) \o Chars(a.file_basename_regex)
store_key(a) ==
    rootdir_str(a) \o Chars(a.mpdir) \o str(a.subdir) \o Chars(a.file_basename_regex)

\* the groups of the search on line 243, r'([A-Z]{3})(\d{2})(\d{2})/ofls(\w)', for a
\* week name followed by a version name: mon, dd, yy and the version letter's rank
week_mon(w) == CASE w = "DEC3195" -> "DEC" [] w = "JAN0596" -> "JAN" [] w = "MAR0109" -> "MAR"
week_dd(w) == CASE w = "DEC3195" -> 31 [] w = "JAN0596" -> 5 [] w = "MAR0109" -> 1
week_yy(w) == CASE w = "DEC3195" -> 95 [] w = "JAN0596" -> 96 [] w = "MAR0109" -> 9
vers_letter(v) == CASE v = "oflsa" -> 1 [] v = "oflsb" -> 2

\* re.search on the path mproot/p: <<the first place a week name is followed by a
\* version name>>, or <<>> for no match
daymatch(p) ==
    LET at == {i \in 1 .. Len(p) - 1 : p[i] \in WeekNames /\ p[i + 1] \in VersNames}
    IN  IF at = {} THEN <<>> ELSE <<CHOOSE i \in at : \A j \in at : i <= j>>

\* line 250
yyyy_always_2000(yy) == 2000 + yy
yyyy_of(yy) == IF yy > 95 THEN 1900 + yy ELSE 2000 + yy

\* DateTime(caldate).date is 'YYYY:DOY:12:00:00.000': the day of the year
days_before(mon) ==
    CASE mon = "JAN" -> 0 [] mon = "FEB" -> 31 [] mon = "MAR" -> 59 [] mon = "APR" -> 90
      [] mon = "MAY" -> 120 [] mon = "JUN" -> 151 [] mon = "JUL" -> 181 [] mon = "AUG" -> 212
      [] mon = "SEP" -> 243 [] mon = "OCT" -> 273 [] mon = "NOV" -> 304 [] mon = "DEC" -> 334
is_leap(y) == y % 4 = 0 /\ (y % 100 # 0 \/ y % 400 = 0)
day_of_year(y, mon, dd) ==
    days_before(mon) + dd + (IF is_leap(y) /\ mon \notin {"JAN", "FEB"} THEN 1 ELSE 0)

\* the sort key of line 253, DateTime(caldate).date[:8] + oflsv, as character ranks:
\* four year digits, ':', three zero-padded day digits, the version letter
sort_key(y, doy, v) ==
    <<y \div 1000, (y \div 100) % 10, (y \div 10) % 10, y % 10, 10,
      doy \div 100, (doy \div 10) % 10, doy % 10, v>>

\* string comparison s < t
RECURSIVE str_less(_, _)
str_less(s_, t_) ==
    IF t_ = <<>> THEN FALSE
    ELSE IF s_ = <<>> THEN TRUE
    ELSE IF Head(s_) # Head(t_) THEN Head(s_) < Head(t_)
    ELSE str_less(Tail(s_), Tail(t_))

\* lines 241-254: the tuples (mpfile, key, date) of the files whose path has a date
RECURSIVE dated(_)
dated(list) ==
    IF list = <<>> THEN <<>>
    ELSE LET mpfile == Head(list)
             m == daymatch(mpfile)
         IN  IF m = <<>> THEN dated(Tail(list))
             ELSE LET w == mpfile[m[1]]
                      y == yyyy_of(week_yy(w))
                      doy == day_of_year(y, week_mon(w), week_dd(w))
                  IN  <<[name |-> mpfile,
                         key |-> sort_key(y, doy, vers_letter(mpfile[m[1] + 1])),
                         date |-> <<y, doy>>]>> \o dated(Tail(list))

\* sorted(files, key=...): a stable sort, by insertion
RECURSIVE insert(_, _)
insert(x, list) ==
    IF list = <<>> THEN <<x>>
    ELSE IF str_less(x.key, Head(list).key) THEN <<x>> \o list
    ELSE <<Head(list)>> \o insert(x, Tail(list))

RECURSIVE sorted(_)
sorted(list) ==
    IF list = <<>> THEN <<>>
    ELSE insert(list[Len(list)], sorted(SubSeq(list, 1, Len(list) - 1)))

\* line 257
out_of(files) == [i \in 1 .. Len(files) |-> [name |-> files[i].name, date |-> files[i].date]]

\* what a returning call leaves behind for the properties
MpRet(a, hit, obj) ==
    [args |-> a, hit |-> hit, obj |-> obj,
     prior |-> IF a \in DOMAIN mp_first THEN <<mp_first[a]>> ELSE <<>>]

users_of(key) == IF key \in DOMAIN mp_users THEN mp_users[key] ELSE {}

note_first(a, obj) ==
    mp_first' = IF a \in DOMAIN mp_first THEN mp_first ELSE (a :> obj.id) @@ mp_first

\* lines 192-207: the call up to the loop; a cache hit returns at once
get_mp_files(a) ==
    /\ mp_pc = "idle"
    /\ mp_n < MaxCalls
    /\ mp_n' = mp_n + 1
    /\ IF lookup_key(a) \in DOMAIN get_mp_files_cache
       THEN /\ mp_ret' = <<MpRet(a, TRUE, get_mp_files_cache[lookup_key(a)])>>
            /\ mp_users' = [mp_users EXCEPT ![lookup_key(a)] = @ \cup {a}]
            /\ note_first(a, get_mp_files_cache[lookup_key(a)])
            /\ UNCHANGED <<mp_pc, mp_args, todo, subdirs, last_subdir, mpfiles>>
       ELSE /\ mp_pc' = "walk"
            /\ mp_args' = <<a>>
            /\ todo' = IF rootdir(a) \in mpdirs THEN <<rootdir(a)>> ELSE <<>>
            /\ subdirs' = <<>>
            /\ last_subdir' = None
            /\ mpfiles' = <<>>
            /\ mp_ret' = <<>>
            /\ UNCHANGED <<mp_first, mp_users>>
    /\ UNCHANGED <<mpdirs, get_mp_files_cache, chdirVars, globVars, relpathVars, copyVars>>

\* os.walk goes on below `root` with the names `kept`, in the order the listing gave
descend(root, kept) ==
    \E order \in Orders(kept) :
        todo' = [i \in 1 .. Len(order) |-> Append(root, order[i])] \o Tail(todo)

\* lines 208-239: one pass of the loop body
walk_step ==
    /\ mp_pc = "walk"
    /\ todo # <<>>
    /\ LET a == mp_args[1]
           root == Head(todo)
           tail == IF root = <<>> THEN "mp" ELSE root[Len(root)]
           dirs == dirs_in(root)
       IN  IF root = <<>>
           THEN /\ descend(root, prune_dirs(dirs, year_re))
                /\ UNCHANGED <<subdirs, last_subdir, mpfiles>>
           ELSE IF re_match(year_re, tail)
           THEN /\ descend(root, prune_dirs(dirs, week_re))
                /\ UNCHANGED <<subdirs, last_subdir, mpfiles>>
           ELSE IF re_match(week_re, tail)
           THEN /\ descend(root, prune_dirs(dirs, vers_re))
                /\ UNCHANGED <<subdirs, last_subdir, mpfiles>>
           ELSE IF re_match(vers_re, tail) /\ a.subdir # None
           THEN LET sd == split_subdir(a.subdir)
                IN  /\ descend(root, prune_dirs(dirs, sd[1]))
                    /\ last_subdir' = sd[1]
                    /\ subdirs' = Tail(sd)
                    /\ UNCHANGED mpfiles
           ELSE IF last_subdir # None /\ tail = last_subdir /\ Len(subdirs) > 0
           THEN /\ descend(root, prune_dirs(dirs, subdirs[1]))
                /\ last_subdir' = subdirs[1]
                /\ subdirs' = Tail(subdirs)
                /\ UNCHANGED mpfiles
           ELSE LET mps == {x \in files_in(root) : match_file(a.file_basename_regex, x)}
                IN  /\ IF mps = {}
                       THEN UNCHANGED mpfiles
                       ELSE \E first \in mps : mpfiles' = Append(mpfiles, Append(root, first))
                    /\ todo' = Tail(todo)
                    /\ UNCHANGED <<subdirs, last_subdir>>
    /\ UNCHANGED <<mpdirs, get_mp_files_cache, mp_pc, mp_args, mp_ret, mp_first, mp_users, mp_n,
                   chdirVars, globVars, relpathVars, copyVars>>

\* lines 241-260: after the loop
walk_done ==
    /\ mp_pc = "walk"
    /\ todo = <<>>
    /\ LET a == mp_args[1]
           out == [id |-> mp_n, by |-> a, items |-> out_of(sorted(dated(mpfiles)))]
       IN  /\ get_mp_files_cache' = (store_key(a) :> out) @@ get_mp_files_cache
           /\ mp_users' = (store_key(a) :> (users_of(store_key(a)) \cup {a})) @@ mp_users
           /\ mp_ret' = <<MpRet(a, FALSE, out)>>
           /\ note_first(a, out)
    /\ mp_pc' = "idle"
    /\ mp_args' = <<>>
    /\ subdirs' = <<>>
    /\ last_subdir' = None
    /\ mpfiles' = <<>>
    /\ UNCHANGED <<mpdirs, todo, mp_n, chdirVars, globVars, relpathVars, copyVars>>

InitMp ==
    /\ mpdirs \in MpTrees
    /\ get_mp_files_cache = <<>>
    /\ mp_pc = "idle" /\ mp_args = <<>> /\ todo = <<>>
    /\ subdirs = <<>> /\ last_subdir = None /\ mpfiles = <<>>
    /\ mp_ret = <<>> /\ mp_first = <<>> /\ mp_users = <<>> /\ mp_n = 0
    /\ chdirParked /\ globParked /\ relpathParked /\ copyParked

NextMp ==
    \/ \E a \in MpArgs : get_mp_files(a)
    \/ walk_step
    \/ walk_done

SpecMp == InitMp /\ [][NextMp]_vars

\* the week and version segments of a returned file's path, and the directories
\* between the version directory and the file
WeekOf(name) == name[daymatch(name)[1]]
VersOf(name) == name[daymatch(name)[1] + 1]
BelowVersion(name) == SubSeq(name, daymatch(name)[1] + 2, Len(name) - 1)

\* the calendar date a week name stands for: the year by the two-digit rule (above
\* 95 is 19yy, otherwise 20yy), then the month and the day
MonthNo(mon) ==
    CASE mon = "JAN" -> 1 [] mon = "FEB" -> 2 [] mon = "MAR" -> 3 [] mon = "APR" -> 4
      [] mon = "MAY" -> 5 [] mon = "JUN" -> 6 [] mon = "JUL" -> 7 [] mon = "AUG" -> 8
      [] mon = "SEP" -> 9 [] mon = "OCT" -> 10 [] mon = "NOV" -> 11 [] mon = "DEC" -> 12
CalDate(w) ==
    <<IF week_yy(w) > 95 THEN 1900 + week_yy(w) ELSE 2000 + week_yy(w),
      MonthNo(week_mon(w)), week_dd(w)>>
NotLater(d, e) ==
    \/ d[1] < e[1]
    \/ d[1] = e[1] /\ d[2] < e[2]
    \/ d[1] = e[1] /\ d[2] = e[2] /\ d[3] <= e[3]

\* C2: once a call with some arguments has completed, a later call with the same
\* arguments does not walk the tree again and returns the very list the first
\* call returned.
C2_SecondCallHits ==
    /\ mp_pc = "walk" => mp_args[1] \notin DOMAIN mp_first
    /\ (mp_ret # <<>> /\ mp_ret[1].prior # <<>>) =>
           (mp_ret[1].hit /\ mp_ret[1].obj.id = mp_ret[1].prior[1])

\* C7: the returned list is in ascending order of the calendar date of each
\* file's week segment, and files of the same date are in ascending order of
\* their version letter.
C7_SortedByDate ==
    mp_ret # <<>> =>
        LET items == mp_ret[1].obj.items
        IN  \A i, j \in 1 .. Len(items) :
                i < j =>
                    LET d == CalDate(WeekOf(items[i].name))
                        e == CalDate(WeekOf(items[j].name))
                    IN  /\ NotLater(d, e)
                        /\ d = e => vers_letter(VersOf(items[i].name))
                                        <= vers_letter(VersOf(items[j].name))

\* a walk returned four files: the 1996 week first, both versions of the 2009
\* week in order, and the week of year 95, dated 2095, last
C7_Witness ==
    /\ mp_ret # <<>>
    /\ ~mp_ret[1].hit
    /\ Len(mp_ret[1].obj.items) = 4
    /\ WeekOf(mp_ret[1].obj.items[1].name) = "JAN0596"
    /\ VersOf(mp_ret[1].obj.items[2].name) = "oflsa"
    /\ VersOf(mp_ret[1].obj.items[3].name) = "oflsb"
    /\ WeekOf(mp_ret[1].obj.items[4].name) = "DEC3195"

\* C8: with a subdirectory chain, every returned file lies in the directory that
\* the chain names, segment for segment, below its version directory.
C8_ExactChain ==
    (mp_ret # <<>> /\ mp_ret[1].args.subdir # None) =>
        \A i \in 1 .. Len(mp_ret[1].obj.items) :
            BelowVersion(mp_ret[1].obj.items[i].name) = split_subdir(mp_ret[1].args.subdir)

\* C9: a call is never served a list that a call with other arguments stored, and
\* no cache entry is stored or read by two different argument tuples.
C9_KeyDetermines ==
    /\ (mp_ret # <<>> /\ mp_ret[1].hit) => mp_ret[1].obj.by = mp_ret[1].args
    /\ \A k \in DOMAIN mp_users : Cardinality(mp_users[k]) <= 1

====
